---- MODULE Spec2Model ----
(***************************************************************************)
(* Model of Software/ledIndicator.cpp: the bi-colour LED activity monitor. *)
(*                                                                         *)
(* The state is the hardware output (level of PIN_A, PWM duty of PIN_B),   *)
(* the pigpio library state, the CPUMonitor object, the locals of main(),  *)
(* the position of main() and the stack of running signal handlers.        *)
(*                                                                         *)
(* Numbers of type double are modelled as exact values (n + w * 2^64) / d, *)
(* a record [n, w, d] with d > 0: w is the coefficient of 2^64, which only *)
(* the wrap-around of the unsigned 64-bit subtraction of line 146 makes    *)
(* non-zero.  Times are steady_clock readings in milliseconds.             *)
(***************************************************************************)
EXTENDS Integers, Sequences, FiniteSets, TLC

\* ------------------------------------------------------------------------
\* Program constants (lines 32-52)
\* ------------------------------------------------------------------------
CHECK_INTERVAL_MS == 25

MIN_FLASH_DURATION_MS == 12

MAX_FLASH_DURATION_MS == 50

\* 0.5, 0.5, 0.25, 0.04, 0.3 and the literal 0.3 of line 232, as fractions <<p, q>>
ACTIVITY_THRESHOLD == <<1, 2>>

ACTIVITY_SMOOTHING == <<1, 2>>

BASE_FLASH_CHANCE == <<1, 4>>

CPU_SCALING == <<1, 25>>

FLASH_VARIATION == <<3, 10>>

JITTER_SHARE == <<3, 10>>

GREEN_BRIGHTNESS == 32

MIN_PAUSE_BETWEEN_FLASHES_MS == 30

\* ------------------------------------------------------------------------
\* Bounds of the model
\* ------------------------------------------------------------------------
\* the loop is followed until the clock passes MaxTime milliseconds
MaxTime == 81

\* at most MaxSignals handled signals are delivered (nested handlers)
MaxSignals == 1

\* the busy counter (user) of /proc/stat stays within 0..MaxUser
MaxUser == 3

\* the sampler taken alone is followed for MaxReads calls of getCPULoad
MaxReads == 4

\* in the run with nested signals, handlers nest at most MaxNested deep
MaxNested == 2

\* for the duration of a flash taken alone, dis(gen) takes the values
\* k / DrawSteps, k in 0 .. DrawSteps - 1
DrawSteps == 40

\* in the run that follows one flash, the flash has started in iteration
\* FlashStartTick of the loop (the first iteration never starts one)
FlashStartTick == 2

\* ------------------------------------------------------------------------
\* Input sets
\* ------------------------------------------------------------------------
\* what the clock reading of line 207 may lie after that of line 206
StartSkews == {0}

\* what the first iteration's clock reading may lie after the startup
\* reading (no sleep precedes it; a niced process may be preempted)
FirstDeltas == {0, MIN_PAUSE_BETWEEN_FLASHES_MS + 1}

\* what sleep_for(CHECK_INTERVAL_MS) plus the iteration's work may take
TickDeltas == {CHECK_INTERVAL_MS, MIN_PAUSE_BETWEEN_FLASHES_MS + 1}

\* values of dis(gen), uniform in [0, 1), as fractions <<p, q>>
Draws == {<<0, 1>>, <<1, 2>>, <<29, 30>>}

\* values of the idle counter: a long idle stretch makes small loads
IdleValues == {0, 400}

\* contents of the first line of /proc/stat, as the loop sees them
Snapshots ==
  [user : 0..MaxUser, nice : {0}, system : {0}, idle : IdleValues,
   iowait : 0..1, irq : {0}, softirq : {0}]

\* the counters when the process starts
BootSnapshots == {s \in Snapshots : s.user = 0}

\* contents of the first line of /proc/stat for the sampler taken alone:
\* all seven counters move
RichSnapshots ==
  [user : 0..2, nice : 0..1, system : 0..1, idle : 0..1,
   iowait : 0..1, irq : 0..1, softirq : 0..1]

RichBootSnapshots ==
  {s \in RichSnapshots : s.user = 0 /\ s.nice = 0 /\ s.system = 0
                          /\ s.irq = 0 /\ s.softirq = 0}

\* ------------------------------------------------------------------------
\* Exact arithmetic for the doubles
\* ------------------------------------------------------------------------
Abs(x) == IF x < 0 THEN -x ELSE x

RECURSIVE GCD(_, _)
GCD(a, b) == IF b = 0 THEN a ELSE GCD(b, a % b)

\* the value (n + w * 2^64) / d in lowest terms
Norm(n, w, d) ==
  LET g == GCD(GCD(Abs(n), Abs(w)), d)
  IN  [n |-> n \div g, w |-> w \div g, d |-> d \div g]

Zero == [n |-> 0, w |-> 0, d |-> 1]

\* v > p/q, v >= p/q, v <= p/q  (|n/d| is far below 2^64 in every state)
GT(v, p, q) == IF v.w # 0 THEN v.w > 0 ELSE v.n * q > p * v.d

GE(v, p, q) == IF v.w # 0 THEN v.w > 0 ELSE v.n * q >= p * v.d

LE(v, p, q) == ~GT(v, p, q)

\* ------------------------------------------------------------------------
\* CPUMonitor (lines 116-160)
\* ------------------------------------------------------------------------
Total(s) == s.user + s.nice + s.system + s.idle + s.iowait + s.irq + s.softirq

IdleSum(s) == s.idle + s.iowait

\* line 145: curr_total - last_total (the environment keeps it >= 0)
TotalDiff(last, cur) == Total(cur) - Total(last)

\* lines 146-147: the unsigned 64-bit difference, as [v, w] = v + w * 2^64
IdleDiff(last, cur) ==
  LET di == IdleSum(cur) - IdleSum(last)
  IN  [v |-> di, w |-> IF di < 0 THEN 1 ELSE 0]

\* line 155: 100.0 * (1.0 - (double)idle_diff / total_diff)
CurrentLoad(last, cur) ==
  LET t  == TotalDiff(last, cur)
      id == IdleDiff(last, cur)
  IN  Norm(100 * (t - id.v), -100 * id.w, t)

\* Smooth with the old value left unscaled
SmoothUnscaled(old, cur) ==
  LET sn == ACTIVITY_SMOOTHING[1]
      sd == ACTIVITY_SMOOTHING[2]
  IN  Norm(old.n * sd * cur.d + cur.n * (sd - sn) * old.d,
           old.w * sd * cur.d + cur.w * (sd - sn) * old.d,
           old.d * cur.d * sd)

\* line 156: cpuLoad * ACTIVITY_SMOOTHING + currentLoad * (1.0 - ACTIVITY_SMOOTHING)
Smooth(old, cur) ==
  LET sn == ACTIVITY_SMOOTHING[1]
      sd == ACTIVITY_SMOOTHING[2]
  IN  Norm(old.n * sn * cur.d + cur.n * (sd - sn) * old.d,
           old.w * sn * cur.d + cur.w * (sd - sn) * old.d,
           old.d * cur.d * sd)


\* CPUMonitorNew taking a successful read of its own for the calibration
CPUMonitorNewInitialized(ok, s, g) ==
  [lastStats |-> IF ok THEN s ELSE g, cpuLoad |-> Zero, initialized |-> ok]

\* the constructor (lines 123-125): it reads /proc/stat into lastStats and
\* ignores the outcome ok; s is the snapshot a successful read stores, g what
\* the uninitialised member holds after a failed one
CPUMonitorNew(ok, s, g) ==
  [lastStats |-> IF ok THEN s ELSE g, cpuLoad |-> Zero, initialized |-> FALSE]

\* getCPULoad forgetting the calibration when a read fails
getCPULoadFailReset(mon, ok, cur) ==
  IF ~ok
    THEN [mon |-> [mon EXCEPT !.initialized = FALSE], ret |-> mon.cpuLoad]
  ELSE IF ~mon.initialized
    THEN [mon |-> [mon EXCEPT !.initialized = TRUE, !.lastStats = cur],
          ret |-> Zero]
  ELSE IF TotalDiff(mon.lastStats, cur) = 0
    THEN [mon |-> [mon EXCEPT !.lastStats = cur], ret |-> mon.cpuLoad]
  ELSE LET l == Smooth(mon.cpuLoad, CurrentLoad(mon.lastStats, cur))
       IN  [mon |-> [mon EXCEPT !.lastStats = cur, !.cpuLoad = l], ret |-> l]

\* getCPULoad with line 149 moved below the guard of line 151
getCPULoadStale(mon, ok, cur) ==
  IF ~ok
    THEN [mon |-> mon, ret |-> mon.cpuLoad]
  ELSE IF ~mon.initialized
    THEN [mon |-> [mon EXCEPT !.initialized = TRUE, !.lastStats = cur],
          ret |-> Zero]
  ELSE IF TotalDiff(mon.lastStats, cur) = 0
    THEN [mon |-> mon, ret |-> mon.cpuLoad]
  ELSE LET l == Smooth(mon.cpuLoad, CurrentLoad(mon.lastStats, cur))
       IN  [mon |-> [mon EXCEPT !.lastStats = cur, !.cpuLoad = l], ret |-> l]

\* the whole of getCPULoad (lines 127-159) on monitor state mon, given the
\* outcome ok of readCPUStats and the snapshot cur it stored on success:
\* the monitor state afterwards and the value returned
getCPULoad(mon, ok, cur) ==
  IF ~ok
    THEN [mon |-> mon, ret |-> mon.cpuLoad]
  ELSE IF ~mon.initialized
    THEN [mon |-> [mon EXCEPT !.initialized = TRUE, !.lastStats = cur],
          ret |-> Zero]
  ELSE IF TotalDiff(mon.lastStats, cur) = 0
    THEN [mon |-> [mon EXCEPT !.lastStats = cur], ret |-> mon.cpuLoad]
  ELSE LET l == Smooth(mon.cpuLoad, CurrentLoad(mon.lastStats, cur))
       IN  [mon |-> [mon EXCEPT !.lastStats = cur, !.cpuLoad = l], ret |-> l]

\* ------------------------------------------------------------------------
\* Flash policy of main() (lines 219-235)
\* ------------------------------------------------------------------------
\* EndsFlash waiting for twice the duration
EndsFlashDoubled(green, elapsed, duration) == green /\ elapsed > 2 * duration

\* EndsFlash with >= for >
EndsFlashAtEqual(green, elapsed, duration) == green /\ elapsed >= duration

\* line 219
EndsFlash(green, elapsed, duration) == green /\ elapsed > duration

\* MayFlash without the load threshold
MayFlashNoThreshold(green, load, sinceLast) ==
  /\ ~green
  /\ sinceLast > MIN_PAUSE_BETWEEN_FLASHES_MS

\* MayFlash without the pause between flashes
MayFlashNoPause(green, load, sinceLast) ==
  /\ ~green
  /\ GT(load, ACTIVITY_THRESHOLD[1], ACTIVITY_THRESHOLD[2])

\* line 223
MayFlash(green, load, sinceLast) ==
  /\ ~green
  /\ GT(load, ACTIVITY_THRESHOLD[1], ACTIVITY_THRESHOLD[2])
  /\ sinceLast > MIN_PAUSE_BETWEEN_FLASHES_MS

\* lines 224-227: dis(gen) < flashProbability, with r1 and r2 the two draws,
\* randomFactor = 0.5 + r1 * FLASH_VARIATION = rfn / rfd and
\* flashProbability = BASE_FLASH_CHANCE * (load * CPU_SCALING) * randomFactor
DrawHits(load, r1, r2) ==
  LET rfn == r1[2] * FLASH_VARIATION[2] + 2 * r1[1] * FLASH_VARIATION[1]
      rfd == 2 * r1[2] * FLASH_VARIATION[2]
      fn  == BASE_FLASH_CHANCE[1] * CPU_SCALING[1] * rfn
      fd  == BASE_FLASH_CHANCE[2] * CPU_SCALING[2] * rfd
      pn  == fn \div GCD(fn, fd)
      pd  == fd \div GCD(fn, fd)
  IN  IF load.w # 0 THEN load.w > 0
      ELSE r2[1] * pd * load.d < load.n * pn * r2[2]

\* line 228 and the cast of line 230: (int)(durationRange * min(1.0, load / 100.0));
\* (int) truncates towards zero.  Line 223 lets only a load above the
\* threshold come here; for a load below the range of int (w < 0) the cast
\* has no defined value and the lowest multiple is taken
ScaledRange(load, range) ==
  IF GE(load, 100, 1) THEN range
  ELSE IF load.w # 0 THEN 0 - range
  ELSE IF load.n >= 0 THEN (range * load.n) \div (100 * load.d)
  ELSE 0 - ((range * (0 - load.n)) \div (100 * load.d))

\* lines 232-233: randomVariation - (randomVariation / 2), r3 the third draw
Jitter(range, r3) ==
  LET randomVariation == (range * JITTER_SHARE[1] * r3[1]) \div (JITTER_SHARE[2] * r3[2])
  IN  randomVariation - (randomVariation \div 2)

\* Clamp left out
ClampNone(d) == d

\* lines 234-235
Clamp(d) ==
  IF d > MAX_FLASH_DURATION_MS THEN MAX_FLASH_DURATION_MS
  ELSE IF d < MIN_FLASH_DURATION_MS THEN MIN_FLASH_DURATION_MS
  ELSE d

\* lines 228-235: the duration of a flash that starts under the given load
FlashDuration(load, r3) ==
  LET durationRange == MAX_FLASH_DURATION_MS - MIN_FLASH_DURATION_MS
  IN  Clamp(MIN_FLASH_DURATION_MS + ScaledRange(load, durationRange)
            + Jitter(durationRange, r3))

\* ------------------------------------------------------------------------
\* State
\* ------------------------------------------------------------------------
VARIABLES
  pinA,                 \* level of GPIO PIN_A (red)
  pwmB,                 \* PWM duty cycle of GPIO PIN_B (green), 0 = low
  gpioUp,               \* pigpio is initialised (gpioInitialise .. gpioTerminate)
  termCalls,            \* number of gpioTerminate calls made
  cmdAfterTerm,         \* a pin command was issued after a gpioTerminate
  procStat,             \* the kernel's counters, as the last successful read saw them
  monitor,              \* the CPUMonitor object: lastStats, cpuLoad, initialized
  pc,                   \* position of main()
  ret,                  \* which call of setRed is running: "startup" or "toIdle"
  running,              \* the global flag of line 60
  handlersInstalled,    \* lines 179-183 have run
  hstack,               \* positions of the running signal handlers, innermost last
  exitCode,             \* -1 while the process runs, else its exit status
  isGreen, flashTimer, lastFlashEndTime, currentFlashDuration,
  cpuLoad,              \* the local of line 211
  currentTime,          \* the last steady_clock reading
  tick,                 \* number of loop iterations entered
  tickCmds,             \* pin commands the current iteration has issued
  tickTrans,            \* transition of the current iteration: none, toIdle, toActive
  hist                  \* history of the reads of the sampler taken alone (MonSpec)

hwVars == <<pinA, pwmB, gpioUp, termCalls, cmdAfterTerm>>

monVars == <<procStat, monitor>>

ctlVars == <<pc, ret, running, handlersInstalled, hstack, exitCode>>

loopVars == <<isGreen, flashTimer, lastFlashEndTime, currentFlashDuration,
              cpuLoad, currentTime>>

tickVars == <<tick, tickCmds, tickTrans>>

vars == <<hwVars, monVars, ctlVars, loopVars, tickVars, hist>>

\* main() runs at position p: the process lives and no handler is running
AtMain(p) == exitCode = -1 /\ hstack = <<>> /\ pc = p

\* the innermost handler is at position p
AtHandler(p) == exitCode = -1 /\ hstack # <<>> /\ hstack[Len(hstack)] = p

\* ------------------------------------------------------------------------
\* pigpio pin commands; each fails without effect when the library is not
\* initialised
\* ------------------------------------------------------------------------
\* gpioWrite(PIN_A, level)
WriteA(level) ==
  /\ pinA' = IF gpioUp THEN level ELSE pinA
  /\ cmdAfterTerm' = (cmdAfterTerm \/ termCalls > 0)
  /\ UNCHANGED <<pwmB, gpioUp, termCalls>>

\* gpioPWM(PIN_B, duty); gpioWrite(PIN_B, 0) switches the PWM off as well
DutyB(duty) ==
  /\ pwmB' = IF gpioUp THEN duty ELSE pwmB
  /\ cmdAfterTerm' = (cmdAfterTerm \/ termCalls > 0)
  /\ UNCHANGED <<pinA, gpioUp, termCalls>>

\* ------------------------------------------------------------------------
\* /proc/stat
\* ------------------------------------------------------------------------
\* what the counters p may have advanced to, within pool: cumulative
\* counters grow, but iowait may decrease (proc(5)); the total never decreases
AdvanceIn(pool, p) ==
  {s \in pool :
     /\ s.user >= p.user /\ s.nice >= p.nice /\ s.system >= p.system
     /\ s.idle >= p.idle /\ s.irq >= p.irq /\ s.softirq >= p.softirq
     /\ Total(s) >= Total(p)}

Advance(p) == AdvanceIn(Snapshots, p)

\* ------------------------------------------------------------------------
\* Initial state: the process starts; PIN_A is as the last user left it
\* ------------------------------------------------------------------------
Init ==
  /\ pinA \in {0, 1}
  /\ pwmB = 0
  /\ gpioUp = FALSE
  /\ termCalls = 0
  /\ cmdAfterTerm = FALSE
  /\ procStat \in BootSnapshots
  /\ monitor = [lastStats |-> procStat, cpuLoad |-> Zero, initialized |-> FALSE]
  /\ pc = "init"
  /\ ret = "startup"
  /\ running = TRUE
  /\ handlersInstalled = FALSE
  /\ hstack = <<>>
  /\ exitCode = -1
  /\ isGreen = FALSE
  /\ flashTimer = 0
  /\ lastFlashEndTime = 0
  /\ currentFlashDuration = MIN_FLASH_DURATION_MS
  /\ cpuLoad = Zero
  /\ currentTime = 0
  /\ tick = 0
  /\ tickCmds = 0
  /\ tickTrans = "none"
  /\ hist = [kind |-> "none", moved |-> FALSE, strict |-> TRUE, mono |-> TRUE]

\* ------------------------------------------------------------------------
\* main(), startup (lines 162-208)
\* ------------------------------------------------------------------------
\* GpioInitialise with the handlers of lines 179-183 installed before the
\* outcome of gpioInitialise is looked at
GpioInitialiseHandlersFirst ==
  /\ AtMain("init")
  /\ UNCHANGED hist
  /\ handlersInstalled' = TRUE
  /\ \E ok \in BOOLEAN :
       IF ok
         THEN /\ gpioUp' = TRUE
              /\ pc' = "setup"
              /\ UNCHANGED exitCode
         ELSE /\ exitCode' = 1
              /\ UNCHANGED <<gpioUp, pc>>
  /\ UNCHANGED <<pinA, pwmB, termCalls, cmdAfterTerm, monVars, ret, running,
                 hstack, loopVars, tickVars>>

\* lines 168-176: gpioInitialise succeeds, or fails and main returns 1
GpioInitialise ==
  /\ AtMain("init")
  /\ UNCHANGED hist
  /\ \E ok \in BOOLEAN :
       IF ok
         THEN /\ gpioUp' = TRUE
              /\ pc' = "signals"
              /\ UNCHANGED exitCode
         ELSE /\ exitCode' = 1
              /\ UNCHANGED <<gpioUp, pc>>
  /\ UNCHANGED <<pinA, pwmB, termCalls, cmdAfterTerm, monVars, ret, running,
                 handlersInstalled, hstack, loopVars, tickVars>>

\* lines 179-183
InstallHandlers ==
  /\ AtMain("signals")
  /\ UNCHANGED hist
  /\ handlersInstalled' = TRUE
  /\ pc' = "setup"
  /\ UNCHANGED <<hwVars, monVars, ret, running, hstack, exitCode, loopVars, tickVars>>

\* lines 186-197: pin modes, PWM frequency and range; no level changes
SetupPins ==
  /\ AtMain("setup")
  /\ UNCHANGED hist
  /\ pc' = "monitor"
  /\ UNCHANGED <<hwVars, monVars, ret, running, handlersInstalled, hstack,
                 exitCode, loopVars, tickVars>>

\* line 199: the monitor is constructed; its read of /proc/stat succeeds
\* or fails
ConstructMonitor ==
  /\ AtMain("monitor")
  /\ UNCHANGED hist
  /\ \E ok \in BOOLEAN :
       IF ok
         THEN \E s \in Advance(procStat) :
                /\ procStat' = s
                /\ monitor' = CPUMonitorNew(TRUE, s, s)
         ELSE \E g \in Snapshots :
                /\ procStat' = procStat
                /\ monitor' = CPUMonitorNew(FALSE, procStat, g)
  /\ pc' = "red1"
  /\ ret' = "startup"
  /\ UNCHANGED <<hwVars, running, handlersInstalled, hstack, exitCode, loopVars, tickVars>>

\* ------------------------------------------------------------------------
\* setRed (lines 74-78), called at line 204 and at line 220
\* ------------------------------------------------------------------------
\* setRed raising PIN_A before the PWM of PIN_B is stopped
SetRed1RaisesA ==
  /\ AtMain("red1")
  /\ UNCHANGED hist
  /\ WriteA(1)
  /\ pc' = "red2"
  /\ tickCmds' = tickCmds + 1
  /\ UNCHANGED <<monVars, ret, running, handlersInstalled, hstack, exitCode,
                 loopVars, tick, tickTrans>>

\* line 75: gpioPWM(PIN_B, 0)
SetRed1 ==
  /\ AtMain("red1")
  /\ UNCHANGED hist
  /\ DutyB(0)
  /\ pc' = "red2"
  /\ tickCmds' = tickCmds + 1
  /\ UNCHANGED <<monVars, ret, running, handlersInstalled, hstack, exitCode,
                 loopVars, tick, tickTrans>>

\* line 76: gpioWrite(PIN_A, 1)
SetRed2 ==
  /\ AtMain("red2")
  /\ UNCHANGED hist
  /\ WriteA(1)
  /\ pc' = "red3"
  /\ tickCmds' = tickCmds + 1
  /\ UNCHANGED <<monVars, ret, running, handlersInstalled, hstack, exitCode,
                 loopVars, tick, tickTrans>>

\* line 77: gpioWrite(PIN_B, 0), then back to the caller
SetRed3 ==
  /\ AtMain("red3")
  /\ UNCHANGED hist
  /\ DutyB(0)
  /\ pc' = IF ret = "startup" THEN "vars" ELSE "toIdle"
  /\ tickCmds' = tickCmds + 1
  /\ UNCHANGED <<monVars, ret, running, handlersInstalled, hstack, exitCode,
                 loopVars, tick, tickTrans>>

\* lines 205-208, with the two clock readings d apart
InitLoopVars ==
  /\ AtMain("vars")
  /\ UNCHANGED hist
  /\ isGreen' = FALSE
  /\ flashTimer' = currentTime
  /\ \E d \in StartSkews :
       /\ lastFlashEndTime' = currentTime + d
       /\ currentTime' = currentTime + d
  /\ currentFlashDuration' = MIN_FLASH_DURATION_MS
  /\ pc' = "loop"
  /\ tickCmds' = 0
  /\ UNCHANGED <<hwVars, monVars, ret, running, handlersInstalled, hstack,
                 exitCode, cpuLoad, tick, tickTrans>>

\* ------------------------------------------------------------------------
\* main(), the loop (lines 210-255)
\* ------------------------------------------------------------------------
\* Iterate driving PIN_A from the flash state in every iteration
IterateReapplying ==
  /\ AtMain("loop")
  /\ UNCHANGED hist
  /\ running
  /\ \/ /\ monitor' = getCPULoad(monitor, FALSE, procStat).mon
        /\ cpuLoad' = getCPULoad(monitor, FALSE, procStat).ret
        /\ procStat' = procStat
     \/ \E s \in Advance(procStat) :
          /\ monitor' = getCPULoad(monitor, TRUE, s).mon
          /\ cpuLoad' = getCPULoad(monitor, TRUE, s).ret
          /\ procStat' = s
  /\ WriteA(IF isGreen THEN 0 ELSE 1)
  /\ pc' = "decide"
  /\ tick' = tick + 1
  /\ tickCmds' = 1
  /\ tickTrans' = "none"
  /\ UNCHANGED <<ret, running, handlersInstalled, hstack, exitCode,
                 isGreen, flashTimer, lastFlashEndTime, currentFlashDuration,
                 currentTime>>

\* lines 210-211: while (running), then monitor.getCPULoad(); the read
\* fails, or sees the counters as they have advanced
Iterate ==
  /\ AtMain("loop")
  /\ UNCHANGED hist
  /\ IF running
       THEN /\ \/ /\ monitor' = getCPULoad(monitor, FALSE, procStat).mon
                  /\ cpuLoad' = getCPULoad(monitor, FALSE, procStat).ret
                  /\ procStat' = procStat
               \/ \E s \in Advance(procStat) :
                    /\ monitor' = getCPULoad(monitor, TRUE, s).mon
                    /\ cpuLoad' = getCPULoad(monitor, TRUE, s).ret
                    /\ procStat' = s
            /\ pc' = "decide"
            /\ tick' = tick + 1
            /\ tickCmds' = 0
            /\ tickTrans' = "none"
       ELSE /\ pc' = "mainOff1"
            /\ UNCHANGED <<monVars, cpuLoad, tickVars>>
  /\ UNCHANGED <<hwVars, ret, running, handlersInstalled, hstack, exitCode,
                 isGreen, flashTimer, lastFlashEndTime, currentFlashDuration,
                 currentTime>>

\* lines 212-235: read the clock and decide; delta is the time since the
\* last reading, r1, r2, r3 the values dis(gen) would give.  Without a
\* transition the iteration ends here, in the sleep of line 254
Decide ==
  /\ AtMain("decide")
  /\ UNCHANGED hist
  /\ \E delta \in (IF tick = 1 THEN FirstDeltas ELSE TickDeltas), r1, r2, r3 \in Draws :
       LET now       == currentTime + delta
           elapsed   == now - flashTimer
           sinceLast == now - lastFlashEndTime
       IN  /\ now <= MaxTime
           /\ currentTime' = now
           /\ IF EndsFlash(isGreen, elapsed, currentFlashDuration)
                THEN /\ pc' = "red1"
                     /\ ret' = "toIdle"
                     /\ UNCHANGED currentFlashDuration
              ELSE IF MayFlash(isGreen, cpuLoad, sinceLast) /\ DrawHits(cpuLoad, r1, r2)
                THEN /\ currentFlashDuration' = FlashDuration(cpuLoad, r3)
                     /\ pc' = "green1"
                     /\ UNCHANGED ret
              ELSE /\ pc' = "loop"
                   /\ UNCHANGED <<ret, currentFlashDuration>>
  /\ UNCHANGED <<hwVars, monVars, running, handlersInstalled, hstack, exitCode,
                 isGreen, flashTimer, lastFlashEndTime, cpuLoad, tickVars>>

\* ToIdle going on to the flash decision in the same iteration
ToIdleThenFlash ==
  /\ AtMain("toIdle")
  /\ UNCHANGED hist
  /\ isGreen' = FALSE
  /\ lastFlashEndTime' = currentTime
  /\ tickTrans' = "toIdle"
  /\ pc' = "green1"
  /\ UNCHANGED <<hwVars, monVars, ret, running, handlersInstalled, hstack, exitCode,
                 flashTimer, currentFlashDuration, cpuLoad, currentTime, tick, tickCmds>>

\* lines 221-222, after setRed, and on to the sleep of line 254
ToIdle ==
  /\ AtMain("toIdle")
  /\ UNCHANGED hist
  /\ isGreen' = FALSE
  /\ lastFlashEndTime' = currentTime
  /\ tickTrans' = "toIdle"
  /\ pc' = "loop"
  /\ UNCHANGED <<hwVars, monVars, ret, running, handlersInstalled, hstack, exitCode,
                 flashTimer, currentFlashDuration, cpuLoad, currentTime, tick, tickCmds>>

\* setGreen (lines 80-83), line 81: gpioWrite(PIN_A, 0)
SetGreen1 ==
  /\ AtMain("green1")
  /\ UNCHANGED hist
  /\ WriteA(0)
  /\ pc' = "green2"
  /\ tickCmds' = tickCmds + 1
  /\ UNCHANGED <<monVars, ret, running, handlersInstalled, hstack, exitCode,
                 loopVars, tick, tickTrans>>

\* line 82: gpioPWM(PIN_B, GREEN_BRIGHTNESS)
SetGreen2 ==
  /\ AtMain("green2")
  /\ UNCHANGED hist
  /\ DutyB(GREEN_BRIGHTNESS)
  /\ pc' = "toActive"
  /\ tickCmds' = tickCmds + 1
  /\ UNCHANGED <<monVars, ret, running, handlersInstalled, hstack, exitCode,
                 loopVars, tick, tickTrans>>

\* lines 238-239, after setGreen, and on to the sleep of line 254
ToActive ==
  /\ AtMain("toActive")
  /\ UNCHANGED hist
  /\ isGreen' = TRUE
  /\ flashTimer' = currentTime
  /\ tickTrans' = "toActive"
  /\ pc' = "loop"
  /\ UNCHANGED <<hwVars, monVars, ret, running, handlersInstalled, hstack, exitCode,
                 lastFlashEndTime, currentFlashDuration, cpuLoad, currentTime,
                 tick, tickCmds>>

\* ------------------------------------------------------------------------
\* main(), after the loop (lines 257-264).  signalHandler never returns, so
\* main() never reads running = FALSE and these steps are never enabled;
\* they are not part of Next (see LoopNeverLeft).
\* ------------------------------------------------------------------------
\* line 257, setOff: gpioWrite(PIN_A, 0)
MainOff1 ==
  /\ AtMain("mainOff1")
  /\ UNCHANGED hist
  /\ WriteA(0)
  /\ pc' = "mainOff2"
  /\ UNCHANGED <<monVars, ret, running, handlersInstalled, hstack, exitCode,
                 loopVars, tickVars>>

\* line 257, setOff: gpioPWM(PIN_B, 0)
MainOff2 ==
  /\ AtMain("mainOff2")
  /\ UNCHANGED hist
  /\ DutyB(0)
  /\ pc' = "mainTerm"
  /\ UNCHANGED <<monVars, ret, running, handlersInstalled, hstack, exitCode,
                 loopVars, tickVars>>

\* lines 258-264: gpioTerminate and return 0
MainReturn ==
  /\ AtMain("mainTerm")
  /\ UNCHANGED hist
  /\ gpioUp' = FALSE
  /\ termCalls' = termCalls + 1
  /\ exitCode' = 0
  /\ UNCHANGED <<pinA, pwmB, cmdAfterTerm, monVars, pc, ret, running,
                 handlersInstalled, hstack, loopVars, tickVars>>

\* ------------------------------------------------------------------------
\* signalHandler (lines 91-99).  A handled signal may arrive whenever the
\* handlers are installed, also while a handler for another signal runs;
\* the interrupted code never resumes because the handler ends in exit(0).
\* ------------------------------------------------------------------------
Top(p) == [hstack EXCEPT ![Len(hstack)] = p]

\* HandlerWrite for a setOff that leaves PIN_A alone
HandlerWriteSkipped ==
  /\ AtHandler("hWrite")
  /\ hstack' = Top("hPwm")
  /\ UNCHANGED <<hwVars, monVars, pc, ret, running, handlersInstalled, exitCode,
                 loopVars, tickVars, hist>>

Deliver ==
  /\ exitCode = -1
  /\ UNCHANGED hist
  /\ handlersInstalled
  /\ Len(hstack) < MaxSignals
  /\ hstack' = Append(hstack, "hFlag")
  /\ UNCHANGED <<hwVars, monVars, pc, ret, running, handlersInstalled, exitCode,
                 loopVars, tickVars>>

\* HandlerFlag for a handler that exits at once when running is already
\* false
HandlerFlagGuarded ==
  /\ AtHandler("hFlag")
  /\ UNCHANGED hist
  /\ IF running
       THEN /\ running' = FALSE
            /\ hstack' = Top("hWrite")
            /\ UNCHANGED exitCode
       ELSE /\ exitCode' = 0
            /\ UNCHANGED <<running, hstack>>
  /\ UNCHANGED <<hwVars, monVars, pc, ret, handlersInstalled, loopVars, tickVars>>

\* lines 92-95: the message and running = false
HandlerFlag ==
  /\ AtHandler("hFlag")
  /\ UNCHANGED hist
  /\ running' = FALSE
  /\ hstack' = Top("hWrite")
  /\ UNCHANGED <<hwVars, monVars, pc, ret, handlersInstalled, exitCode,
                 loopVars, tickVars>>

\* line 96, setOff (line 86): gpioWrite(PIN_A, 0)
HandlerWrite ==
  /\ AtHandler("hWrite")
  /\ UNCHANGED hist
  /\ WriteA(0)
  /\ hstack' = Top("hPwm")
  /\ UNCHANGED <<monVars, pc, ret, running, handlersInstalled, exitCode,
                 loopVars, tickVars>>

\* line 96, setOff (line 87): gpioPWM(PIN_B, 0)
HandlerPwm ==
  /\ AtHandler("hPwm")
  /\ UNCHANGED hist
  /\ DutyB(0)
  /\ hstack' = Top("hTerm")
  /\ UNCHANGED <<monVars, pc, ret, running, handlersInstalled, exitCode,
                 loopVars, tickVars>>

\* line 97: gpioTerminate()
HandlerTerminate ==
  /\ AtHandler("hTerm")
  /\ UNCHANGED hist
  /\ gpioUp' = FALSE
  /\ termCalls' = termCalls + 1
  /\ hstack' = Top("hExit")
  /\ UNCHANGED <<pinA, pwmB, cmdAfterTerm, monVars, pc, ret, running,
                 handlersInstalled, exitCode, loopVars, tickVars>>

\* line 98: exit(0)
HandlerExit ==
  /\ AtHandler("hExit")
  /\ UNCHANGED hist
  /\ exitCode' = 0
  /\ UNCHANGED <<hwVars, monVars, pc, ret, running, handlersInstalled, hstack,
                 loopVars, tickVars>>

\* ------------------------------------------------------------------------
\* Specification
\* ------------------------------------------------------------------------
Next ==
  \/ GpioInitialise
  \/ InstallHandlers
  \/ SetupPins
  \/ ConstructMonitor
  \/ SetRed1
  \/ SetRed2
  \/ SetRed3
  \/ InitLoopVars
  \/ Iterate
  \/ Decide
  \/ ToIdle
  \/ SetGreen1
  \/ SetGreen2
  \/ ToActive
  \/ Deliver
  \/ HandlerFlag
  \/ HandlerWrite
  \/ HandlerPwm
  \/ HandlerTerminate
  \/ HandlerExit

Spec == Init /\ [][Next]_vars

\* ------------------------------------------------------------------------
\* The sampler taken alone: a constructed CPUMonitor whose getCPULoad is
\* called MaxReads times on counters in which all seven fields move
\* ------------------------------------------------------------------------
\* what a call of getCPULoad adds to the history h: which branch the inputs
\* call for, whether the snapshot read differs from the stored one, whether
\* the totals of the successful reads have strictly increased so far, and
\* whether no counter has decreased so far
Observe(h, mon, ok, s) ==
  LET diffed == ok /\ mon.initialized
      last   == mon.lastStats
  IN  [kind   |-> IF ~ok THEN "fail"
                  ELSE IF ~mon.initialized THEN "calib"
                  ELSE IF Total(s) = Total(last) THEN "zero"
                  ELSE "sample",
       moved  |-> ok /\ s # last,
       strict |-> h.strict /\ (diffed => Total(s) > Total(last)),
       mono   |-> h.mono /\ (diffed =>
                    /\ s.user >= last.user /\ s.nice >= last.nice
                    /\ s.system >= last.system /\ s.idle >= last.idle
                    /\ s.iowait >= last.iowait /\ s.irq >= last.irq
                    /\ s.softirq >= last.softirq)]

MonInit ==
  /\ pinA = 0
  /\ pwmB = 0
  /\ gpioUp = FALSE
  /\ termCalls = 0
  /\ cmdAfterTerm = FALSE
  /\ procStat \in RichBootSnapshots
  /\ \E ok \in BOOLEAN : \E g \in RichSnapshots :
       monitor = CPUMonitorNew(ok, procStat, g)
  /\ pc = "sampler"
  /\ ret = "startup"
  /\ running = TRUE
  /\ handlersInstalled = FALSE
  /\ hstack = <<>>
  /\ exitCode = -1
  /\ isGreen = FALSE
  /\ flashTimer = 0
  /\ lastFlashEndTime = 0
  /\ currentFlashDuration = MIN_FLASH_DURATION_MS
  /\ cpuLoad = Zero
  /\ currentTime = 0
  /\ tick = 0
  /\ tickCmds = 0
  /\ tickTrans = "none"
  /\ hist = [kind |-> "none", moved |-> FALSE, strict |-> TRUE, mono |-> TRUE]

\* one call of getCPULoad (line 211)
MonRead ==
  /\ pc = "sampler"
  /\ tick < MaxReads
  /\ \/ /\ monitor' = getCPULoad(monitor, FALSE, procStat).mon
        /\ cpuLoad' = getCPULoad(monitor, FALSE, procStat).ret
        /\ procStat' = procStat
        /\ hist' = Observe(hist, monitor, FALSE, procStat)
     \/ \E s \in AdvanceIn(RichSnapshots, procStat) :
          /\ monitor' = getCPULoad(monitor, TRUE, s).mon
          /\ cpuLoad' = getCPULoad(monitor, TRUE, s).ret
          /\ procStat' = s
          /\ hist' = Observe(hist, monitor, TRUE, s)
  /\ tick' = tick + 1
  /\ UNCHANGED <<hwVars, ctlVars, isGreen, flashTimer, lastFlashEndTime,
                 currentFlashDuration, currentTime, tickCmds, tickTrans>>

MonNext == MonRead

MonSpec == MonInit /\ [][MonNext]_vars


\* ------------------------------------------------------------------------
\* Nested signals: the program on a machine that is never idle (the idle
\* and iowait counters stand still), with handled signals arriving also
\* while handlers run, up to MaxNested deep.  Five signals are handled
\* (lines 179-183) and signal() masks only the one being handled, so a
\* handler for one can interrupt a handler for another
\* ------------------------------------------------------------------------
\* the counters of a machine that is never idle
NeverIdle(s) == s.idle = 0 /\ s.iowait = 0

\* a handled signal arrives, handlers nesting up to MaxNested deep
DeliverNested ==
  /\ exitCode = -1
  /\ UNCHANGED hist
  /\ handlersInstalled
  /\ Len(hstack) < MaxNested
  /\ hstack' = Append(hstack, "hFlag")
  /\ UNCHANGED <<hwVars, monVars, pc, ret, running, handlersInstalled, exitCode,
                 loopVars, tickVars>>

\* one statement of the innermost running handler
HandlerStep ==
  \/ HandlerFlag
  \/ HandlerWrite
  \/ HandlerPwm
  \/ HandlerTerminate
  \/ HandlerExit

SigInit == Init /\ NeverIdle(procStat)

SigNext ==
  \/ GpioInitialise
  \/ InstallHandlers
  \/ SetupPins
  \/ ConstructMonitor /\ NeverIdle(procStat')
  \/ SetRed1
  \/ SetRed2
  \/ SetRed3
  \/ InitLoopVars
  \/ Iterate /\ NeverIdle(procStat')
  \/ Decide
  \/ ToIdle
  \/ SetGreen1
  \/ SetGreen2
  \/ ToActive
  \/ DeliverNested
  \/ HandlerFlag
  \/ HandlerWrite
  \/ HandlerPwm
  \/ HandlerTerminate
  \/ HandlerExit

\* the statements of a running handler are executed one after another: a
\* handler that can take its next step takes it
SigSpec == SigInit /\ [][SigNext]_vars /\ WF_vars(HandlerStep)


\* ------------------------------------------------------------------------
\* The duration of a flash taken alone: lines 228-235 for a load that line
\* 223 lets through and a draw of dis(gen) on a fine grid
\* ------------------------------------------------------------------------
FineDraws == {<<k, DrawSteps>> : k \in 0..(DrawSteps - 1)}

\* loads above ACTIVITY_THRESHOLD, in percent
FlashLoads == {[n |-> k, w |-> 0, d |-> 1] : k \in {1, 25, 50, 75, 100}}

DurInit ==
  /\ pinA = 0
  /\ pwmB = 0
  /\ gpioUp = TRUE
  /\ termCalls = 0
  /\ cmdAfterTerm = FALSE
  /\ procStat \in {s \in BootSnapshots : NeverIdle(s)}
  /\ monitor = [lastStats |-> procStat, cpuLoad |-> Zero, initialized |-> TRUE]
  /\ pc = "duration"
  /\ ret = "startup"
  /\ running = TRUE
  /\ handlersInstalled = TRUE
  /\ hstack = <<>>
  /\ exitCode = -1
  /\ isGreen = FALSE
  /\ flashTimer = 0
  /\ lastFlashEndTime = 0
  /\ currentFlashDuration = MIN_FLASH_DURATION_MS
  /\ cpuLoad \in FlashLoads
  /\ currentTime = 0
  /\ tick = 0
  /\ tickCmds = 0
  /\ tickTrans = "none"
  /\ hist = [kind |-> "none", moved |-> FALSE, strict |-> TRUE, mono |-> TRUE]

\* lines 228-235 with r3 the draw of line 232; hist keeps the draw, the
\* duration of line 230 and what line 233 adds to it
DurCompute ==
  /\ pc = "duration"
  /\ \E r3 \in FineDraws :
       LET durationRange == MAX_FLASH_DURATION_MS - MIN_FLASH_DURATION_MS
       IN  /\ currentFlashDuration' = FlashDuration(cpuLoad, r3)
           /\ hist' = [kind |-> "duration", draw |-> r3,
                       base |-> MIN_FLASH_DURATION_MS + ScaledRange(cpuLoad, durationRange),
                       adj  |-> Jitter(durationRange, r3)]
  /\ pc' = "green1"
  /\ UNCHANGED <<hwVars, monVars, ret, running, handlersInstalled, hstack, exitCode,
                 isGreen, flashTimer, lastFlashEndTime, cpuLoad, currentTime, tickVars>>

DurNext == DurCompute

DurSpec == DurInit /\ [][DurNext]_vars


\* ------------------------------------------------------------------------
\* One flash followed to its end: the loop from the end of the iteration
\* that started a flash, without signals.  Time is counted from the start
\* of the flash; its duration is any value lines 234-235 let through
\* ------------------------------------------------------------------------
FlashInit ==
  /\ pinA = 0
  /\ pwmB = GREEN_BRIGHTNESS
  /\ gpioUp = TRUE
  /\ termCalls = 0
  /\ cmdAfterTerm = FALSE
  /\ procStat \in {s \in Snapshots : NeverIdle(s) /\ s.user >= 1}
  /\ cpuLoad \in FlashLoads
  /\ monitor = [lastStats |-> procStat, cpuLoad |-> cpuLoad, initialized |-> TRUE]
  /\ pc = "loop"
  /\ ret = "startup"
  /\ running = TRUE
  /\ handlersInstalled = TRUE
  /\ hstack = <<>>
  /\ exitCode = -1
  /\ isGreen = TRUE
  /\ flashTimer = 0
  /\ lastFlashEndTime = 0 - (MIN_PAUSE_BETWEEN_FLASHES_MS + 1)
  /\ currentFlashDuration \in MIN_FLASH_DURATION_MS..MAX_FLASH_DURATION_MS
  /\ currentTime = 0
  /\ tick = FlashStartTick
  /\ tickCmds = 2
  /\ tickTrans = "toActive"
  /\ hist = [kind |-> "none", moved |-> FALSE, strict |-> TRUE, mono |-> TRUE]

FlashNext ==
  \/ Iterate
  \/ Decide
  \/ SetRed1
  \/ SetRed2
  \/ SetRed3
  \/ ToIdle
  \/ SetGreen1
  \/ SetGreen2
  \/ ToActive

FlashSpec == FlashInit /\ [][FlashNext]_vars


\* ------------------------------------------------------------------------
\* Properties
\* ------------------------------------------------------------------------
Off == pinA = 0 /\ pwmB = 0

Red == pinA = 1 /\ pwmB = 0

Green == pinA = 0 /\ pwmB = GREEN_BRIGHTNESS

\* main() is inside setGreen or just behind it, on its way to Active
Flashing == pc \in {"green1", "green2", "toActive"}

\* an iteration of the loop has ended (main() sleeps or tests running)
TickEnd == pc = "loop" /\ tick >= 1

\* a handler has got past setOff
PastSetOff == \E i \in 1..Len(hstack) : hstack[i] \in {"hTerm", "hExit"}

InRange(v) == GE(v, 0, 1) /\ LE(v, 100, 1)

\* main() never reads running = FALSE: the code behind the loop is dead
LoopNeverLeft == pc \notin {"mainOff1", "mainOff2", "mainTerm"}

\* C1: once a signal handler has run setOff, and after the exit it ends in,
\* the output is Off (PIN_A low, PIN_B duty 0), wherever main() or an outer
\* handler was interrupted
C1_OffAfterSignal == (exitCode = 0 \/ PastSetOff) => Off

\* C1 witness: the process has exited from a handler that interrupted an
\* Active period inside setRed, after PIN_A was raised
C1_Witness ==
  exitCode = 0 /\ isGreen /\ pc = "red3" /\ ret = "toIdle"

\* C2 as stated: an Active iteration goes to Idle exactly when
\* elapsed >= currentFlashDuration, the equal case included
C2_Original ==
  TickEnd =>
    /\ (isGreen /\ tickTrans = "none") => currentTime - flashTimer < currentFlashDuration
    /\ tickTrans = "toIdle" => currentTime - flashTimer >= currentFlashDuration

\* C2 amended: an Active iteration goes to Idle exactly when
\* elapsed > currentFlashDuration; with elapsed equal to it the flash goes on
C2_EndsWhenExceeded ==
  TickEnd =>
    /\ (isGreen /\ tickTrans = "none") => currentTime - flashTimer <= currentFlashDuration
    /\ tickTrans = "toIdle" => currentTime - flashTimer > currentFlashDuration

\* C2 witness: an Active iteration with elapsed equal to the duration has
\* ended without a transition
C2_Witness ==
  /\ TickEnd /\ isGreen /\ tickTrans = "none"
  /\ currentTime - flashTimer = currentFlashDuration

\* C3: an iteration that goes to Active has sampled a load above
\* ACTIVITY_THRESHOLD; with a load at or below it there is no such transition
C3_NoFlashBelowThreshold ==
  (Flashing \/ (TickEnd /\ tickTrans = "toActive"))
    => GT(cpuLoad, ACTIVITY_THRESHOLD[1], ACTIVITY_THRESHOLD[2])

\* C3 witness: an Idle iteration past the pause, with a positive load at or
\* below the threshold, has ended without a transition
C3_Witness ==
  /\ TickEnd /\ ~isGreen /\ tickTrans = "none"
  /\ GT(cpuLoad, 0, 1)
  /\ LE(cpuLoad, ACTIVITY_THRESHOLD[1], ACTIVITY_THRESHOLD[2])
  /\ currentTime - lastFlashEndTime > MIN_PAUSE_BETWEEN_FLASHES_MS

\* C4: an iteration that goes to Active does so at least
\* MIN_PAUSE_BETWEEN_FLASHES_MS after the last Active period ended (or after
\* startup), so every Active period starts that long after the one before
C4_NoFlashWhileDebounced ==
  /\ (Flashing \/ (TickEnd /\ tickTrans = "toActive"))
       => currentTime - lastFlashEndTime >= MIN_PAUSE_BETWEEN_FLASHES_MS
  /\ isGreen => flashTimer - lastFlashEndTime >= MIN_PAUSE_BETWEEN_FLASHES_MS

\* C4 witness: after a flash has ended, an iteration with a load above the
\* threshold, less than the pause later, has ended without a transition
C4_Witness ==
  /\ TickEnd /\ ~isGreen /\ tickTrans = "none"
  /\ lastFlashEndTime > 0
  /\ currentTime > lastFlashEndTime
  /\ currentTime - lastFlashEndTime < MIN_PAUSE_BETWEEN_FLASHES_MS
  /\ GT(cpuLoad, ACTIVITY_THRESHOLD[1], ACTIVITY_THRESHOLD[2])

\* C5: from the moment a flash is decided and while it is Active,
\* currentFlashDuration lies in [MIN_FLASH_DURATION_MS, MAX_FLASH_DURATION_MS]
C5_DurationClamped ==
  (isGreen \/ Flashing) =>
    /\ currentFlashDuration >= MIN_FLASH_DURATION_MS
    /\ currentFlashDuration <= MAX_FLASH_DURATION_MS

\* C5 witness: a flash is starting whose load-scaled duration plus the
\* largest jitter passes the maximum, and the duration is the maximum
C5_Witness ==
  /\ pc = "green1"
  /\ currentFlashDuration = MAX_FLASH_DURATION_MS
  /\ MIN_FLASH_DURATION_MS
       + ScaledRange(cpuLoad, MAX_FLASH_DURATION_MS - MIN_FLASH_DURATION_MS)
       + Jitter(MAX_FLASH_DURATION_MS - MIN_FLASH_DURATION_MS, <<29, 30>>)
       > MAX_FLASH_DURATION_MS

\* C6: while the totals of the successful reads have strictly increased,
\* the returned and the stored load lie in [0, 100]
C6_Original ==
  hist.strict => InRange(cpuLoad) /\ InRange(monitor.cpuLoad)

\* C6 fails only through a counter that decreases (iowait may): while the
\* totals have strictly increased and no counter has decreased, the returned
\* and the stored load do lie in [0, 100]
C6_LoadInRange ==
  (hist.strict /\ hist.mono) => InRange(cpuLoad) /\ InRange(monitor.cpuLoad)

\* such a sequence has given three samples and a load above 50
C6_Witness ==
  /\ hist.strict /\ hist.mono /\ hist.kind = "sample"
  /\ tick >= 3
  /\ GT(monitor.cpuLoad, 50, 1)

\* C7: PIN_A is never high while PIN_B has a non-zero duty cycle
C7_NoConflict == ~(pinA = 1 /\ pwmB > 0)

\* C7 witness: a handler runs, having interrupted setRed between its pin
\* commands at the end of an Active period
C7_Witness ==
  /\ hstack # <<>> /\ pc = "red2" /\ ret = "toIdle" /\ isGreen

C9_FirstTickIdle ==
  /\ (AtMain("loop") /\ tick = 0) => (~isGreen /\ Red)
  /\ tick = 1 =>
       /\ cpuLoad = Zero
       /\ ~isGreen /\ ~Flashing /\ tickTrans = "none"

\* C9 witness: the first iteration has ended Idle although its read
\* succeeded on counters that show work and the pause had passed
C9_Witness ==
  /\ AtMain("loop") /\ tick = 1 /\ monitor.initialized
  /\ procStat.user > 0
  /\ currentTime - lastFlashEndTime > MIN_PAUSE_BETWEEN_FLASHES_MS

\* C10: a successful read after calibration whose total equals that of the
\* stored snapshot returns the smoothed load as it was, leaves it as it was
\* and stores the snapshot just read
C10_ZeroDelta ==
  [][(pc = "sampler" /\ tick' = tick + 1 /\ hist'.kind = "zero") =>
       /\ cpuLoad' = monitor.cpuLoad
       /\ monitor'.cpuLoad = monitor.cpuLoad
       /\ monitor'.lastStats = procStat']_vars

\* C10 witness: such a read has happened with a smoothed load other than 0
\* and has replaced a snapshot that differed from the one read
C10_Witness ==
  /\ hist.kind = "zero" /\ hist.moved /\ cpuLoad # Zero
  /\ monitor.lastStats = procStat

\* C11: a call of getCPULoad whose read fails returns the smoothed load as
\* it was and leaves the sampler as it was (smoothed load, stored snapshot,
\* initialized flag); the call returns normally and the process goes on
C11_FailedReadAbsorbed ==
  [][(pc = "sampler" /\ tick' = tick + 1 /\ hist'.kind = "fail") =>
       /\ cpuLoad' = monitor.cpuLoad
       /\ monitor' = monitor
       /\ exitCode' = -1]_vars

\* C11 witness: a read has failed after calibration with a smoothed load
\* other than 0, which the call returned
C11_Witness ==
  /\ hist.kind = "fail" /\ monitor.initialized
  /\ monitor.cpuLoad # Zero /\ cpuLoad = monitor.cpuLoad

\* C12: while pigpio has not come up, main() has done nothing else: no
\* handler is installed, no pin command issued, no monitor read and no
\* iteration made; a failed gpioInitialise ends the process there, with
\* status 1, and status 0 comes only from a handler
C12_InitFailureExits ==
  /\ (~gpioUp /\ termCalls = 0) =>
       /\ pc = "init" /\ ~handlersInstalled /\ hstack = <<>>
       /\ tick = 0 /\ tickCmds = 0 /\ ~cmdAfterTerm
       /\ ~monitor.initialized /\ cpuLoad = Zero
       /\ exitCode \in {-1, 1}
  /\ exitCode = 1 => (~gpioUp /\ termCalls = 0)

\* C12 witness: gpioInitialise has failed and the process has exited with
\* status 1, PIN_A still high as the last user left it
C12_Witness ==
  exitCode = 1 /\ pc = "init" /\ pinA = 1 /\ ~handlersInstalled

\* C13: when a second handler has been started while the first was still
\* running, the process exits with status 0 all the same, and from the
\* moment one of the handlers is past setOff and after the exit the output
\* is Off (PIN_A low, PIN_B duty 0)
C13_NestedTermination ==
  /\ [](((exitCode = 0 \/ PastSetOff) /\ Len(hstack) >= 2) => Off)
  /\ (Len(hstack) >= 2) ~> (exitCode = 0)

\* C13 witness: the process has exited from a second handler, which
\* interrupted the first inside setOff at a moment the output was green
C13_Witness ==
  /\ exitCode = 0 /\ Len(hstack) = 2 /\ hstack[1] = "hPwm"
  /\ hstack[2] = "hExit" /\ isGreen /\ pc = "loop"

\* the load C14 states for a sample: 0.5 * prev + 0.5 * 100 * (1 - di / t),
\* with t the change of the sum of the seven counters and di the change of
\* idle + iowait, as numbers
StatedLoad(prev, last, cur) ==
  LET t  == Total(cur) - Total(last)
      di == IdleSum(cur) - IdleSum(last)
  IN  Norm(prev.n * t + 100 * (t - di) * prev.d, prev.w * t, 2 * prev.d * t)

\* the two reads of the scenario of C14
ScenarioFirst ==
  [user |-> 100, nice |-> 0, system |-> 0, idle |-> 100,
   iowait |-> 0, irq |-> 0, softirq |-> 0]

ScenarioSecond == [ScenarioFirst EXCEPT !.user = 150]

\* what getCPULoad stores for the scenario, from a smoothed load of 0
ScenarioLoad ==
  getCPULoad([lastStats |-> ScenarioFirst, cpuLoad |-> Zero, initialized |-> TRUE],
             TRUE, ScenarioSecond).mon.cpuLoad

\* C14 as stated: every successful read after calibration with a changed
\* total stores and returns 0.5 * previous + 0.5 * 100 * (1 - idle_delta /
\* total_delta), and the scenario (user 100 -> 150, idle 100) gives 50
C14_Original ==
  [][(pc = "sampler" /\ tick' = tick + 1 /\ hist'.kind = "sample") =>
       /\ monitor'.cpuLoad = StatedLoad(monitor.cpuLoad, monitor.lastStats, procStat')
       /\ cpuLoad' = monitor'.cpuLoad
       /\ ScenarioLoad = [n |-> 50, w |-> 0, d |-> 1]]_vars

\* C14 fails only through the wrapped idle_diff of C6: up to the first read
\* in which a counter has decreased, every sample stores and returns the
\* stated load, and the scenario gives 50
C14_SmoothingWhenMonotone ==
  [][(pc = "sampler" /\ tick' = tick + 1 /\ hist'.kind = "sample" /\ hist'.mono) =>
       /\ monitor'.cpuLoad = StatedLoad(monitor.cpuLoad, monitor.lastStats, procStat')
       /\ cpuLoad' = monitor'.cpuLoad
       /\ ScenarioLoad = [n |-> 50, w |-> 0, d |-> 1]]_vars

\* C15 as stated: what line 233 adds to the duration is at most 15% of the
\* duration range in absolute value, and whenever it is positive some draw
\* makes it the negative of the same magnitude
C15_Original ==
  hist.kind = "duration" =>
    /\ 100 * Abs(hist.adj) <= 15 * (MAX_FLASH_DURATION_MS - MIN_FLASH_DURATION_MS)
    /\ hist.adj > 0 =>
         \E q \in FineDraws :
           Jitter(MAX_FLASH_DURATION_MS - MIN_FLASH_DURATION_MS, q) = 0 - hist.adj

\* what line 233 adds is never negative and at most 6 ms, whatever the draw
C15_JitterOnlyLengthens ==
  hist.kind = "duration" => (hist.adj >= 0 /\ hist.adj <= 6)

\* line 233 has added 1 ms: already the smallest positive adjustment has
\* no negative counterpart
C15_SmallestJitter == hist.kind = "duration" /\ hist.adj = 1

\* C16 as stated: in a process that got past gpioInitialise no pin command
\* follows a gpioTerminate, and when it has exited gpioTerminate has been
\* called exactly once, however the handled signals fall
C16_Original ==
  /\ ~cmdAfterTerm
  /\ termCalls <= 1
  /\ exitCode = 0 => termCalls = 1

\* C16 fails only through a handler interrupting a handler: as long as one
\* handler runs alone, no pin command follows its gpioTerminate and the
\* process exits with gpioTerminate called once
C16_OnceWithoutNesting ==
  Len(hstack) <= 1 =>
    /\ ~cmdAfterTerm
    /\ termCalls <= 1
    /\ exitCode = 0 => termCalls = 1

\* a single handler has interrupted an Active period and the process has
\* exited
C16_SingleHandlerExit ==
  exitCode = 0 /\ Len(hstack) = 1 /\ isGreen /\ termCalls = 1

\* C17: without a signal and with the clock readings of successive
\* iterations at least CHECK_INTERVAL_MS apart, a flash is over when the
\* third iteration after the one that started it has ended, whatever the
\* loads sampled and the values drawn
C17_FlashEndsWithinThree ==
  (pc = "loop" /\ tick >= FlashStartTick + 3 /\ flashTimer = 0) => ~isGreen

\* C17 witness: a flash of MAX_FLASH_DURATION_MS has gone on through two
\* iterations, the second with elapsed equal to the duration, and has
\* ended in the third
C17_Witness ==
  /\ pc = "loop" /\ tick = FlashStartTick + 3 /\ flashTimer = 0
  /\ tickTrans = "toIdle" /\ ~isGreen /\ Red
  /\ currentFlashDuration = MAX_FLASH_DURATION_MS
  /\ currentTime = 3 * CHECK_INTERVAL_MS

\* C18: whenever main() is at the head of the loop (before the first
\* iteration and after the sleep that ends each one) the output is that of
\* the flash state: Idle with PIN_A high and PIN_B duty 0, Active with
\* PIN_A low and PIN_B duty GREEN_BRIGHTNESS; and an iteration makes at
\* most one transition: at most one of setRed (three pin commands, ending
\* Idle) and setGreen (two, ending Active) has run in it
C18_OutputFollowsState ==
  AtMain("loop") =>
    /\ isGreen => Green
    /\ ~isGreen => Red
    /\ tickTrans = "none" => tickCmds = 0
    /\ tickTrans = "toIdle" => (tickCmds = 3 /\ ~isGreen)
    /\ tickTrans = "toActive" => (tickCmds = 2 /\ isGreen)

\* C18 witness: an iteration has ended a flash that an earlier iteration
\* had left running without a pin command, and the output is red
C18_Witness ==
  /\ AtMain("loop") /\ tickTrans = "toIdle" /\ ~isGreen /\ Red
  /\ currentTime - flashTimer >= 2 * CHECK_INTERVAL_MS

====
